---- MODULE Spec2Model ----
(***************************************************************************)
(* Model of src/src/main.rs: the axum recipe (mod axum_example) and the    *)
(* clap recipe's Config (mod clap_example).                                *)
(*                                                                         *)
(* A Rust String is modelled as what it is, a sequence of UTF-8 bytes; a   *)
(* char is its Unicode scalar value; a u32 is a natural number.            *)
(*                                                                         *)
(* Two specifications share the variables:                                 *)
(*   Spec / LiveSpec : the server of axum_example::main, its connections   *)
(*                     and its lifecycle;                                  *)
(*   HandlerSpec     : one call of a route handler on an input drawn from  *)
(*                     a bounded set (the handlers are pure functions).    *)
(***************************************************************************)
EXTENDS Naturals, Sequences, FiniteSets

\* ------------------------------------------------------------------ bounds

\* Longest `bar` vector a decode request carries in HandlerSpec.
MaxLen == 2
\* Number of connections the server handles at the same time.
MaxConns == 2
\* Number of requests accepted over one run of the server.
MaxRequests == 3
\* Number of requests accepted over one run under LiveSpec.
MaxLiveRequests == 2

Slots == 1 .. MaxConns

\* ----------------------------------------------------------------- strings

\* "Hello " as UTF-8 bytes
HelloPrefix == <<72, 101, 108, 108, 111, 32>>
\* "foo"
StrFoo == <<102, 111, 111>>
\* "Bob"
StrBob == <<66, 111, 98>>
\* "e" with acute accent (U+00E9), two bytes in UTF-8
StrEAcute == <<195, 169>>
\* a double quote followed by a line feed: both are escaped in JSON
StrQuoteNl == <<34, 10>>

\* u32 values around every boundary of char::try_from and of UTF-8's widths
\* (2147483647 stands for every value above 0x10FFFF).
CodePointSamples ==
    {0, 97, 127, 128, 2047, 2048, 55295, 55296, 57343, 57344,
     65535, 65536, 1114111, 1114112, 2147483647}

\* ------------------------------------------------------- std conversions

\* Variant: a conversion that knows the Basic Multilingual Plane only.
IsCharBmpOnly(u) == u <= 65535 /\ ~(u >= 55296 /\ u <= 57343)

\* char::try_from(u32) succeeds exactly on Unicode scalar values:
\* at most 0x10FFFF and no surrogate (0xD800 ..= 0xDFFF).
IsChar(u) == u <= 1114111 /\ ~(u >= 55296 /\ u <= 57343)

char_try_from(u) ==
    IF IsChar(u) THEN [ok |-> TRUE, ch |-> u] ELSE [ok |-> FALSE, ch |-> 0]

\* String::push(char): the UTF-8 encoding of one scalar value.
Utf8Encode(c) ==
    IF c < 128 THEN <<c>>
    ELSE IF c < 2048 THEN <<192 + (c \div 64), 128 + (c % 64)>>
    ELSE IF c < 65536
         THEN <<224 + (c \div 4096), 128 + ((c \div 64) % 64), 128 + (c % 64)>>
         ELSE <<240 + (c \div 262144), 128 + ((c \div 4096) % 64),
                128 + ((c \div 64) % 64), 128 + (c % 64)>>

\* Variant: a collection that skips the values that fail to convert (as
\* filter_map(Result::ok) would) instead of ending at the first Err.
RECURSIVE CollectStringSkipping(_)
CollectStringSkipping(rs) ==
    IF rs = <<>> THEN [ok |-> TRUE, s |-> <<>>]
    ELSE LET rest == CollectStringSkipping(Tail(rs))
         IN  IF Head(rs).ok
             THEN [ok |-> TRUE, s |-> Utf8Encode(Head(rs).ch) \o rest.s]
             ELSE rest

\* Iterator<Item = Result<char, E>>::collect::<Result<String, E>>():
\* the first Err ends the collection and is the result.
RECURSIVE CollectString(_)
CollectString(rs) ==
    IF rs = <<>> THEN [ok |-> TRUE, s |-> <<>>]
    ELSE IF ~Head(rs).ok THEN [ok |-> FALSE, s |-> <<>>]
    ELSE LET rest == CollectString(Tail(rs))
         IN  IF rest.ok
             THEN [ok |-> TRUE, s |-> Utf8Encode(Head(rs).ch) \o rest.s]
             ELSE [ok |-> FALSE, s |-> <<>>]

\* ------------------------------------------------------------- JSON output

RECURSIVE Decimal(_)
Decimal(n) == IF n < 10 THEN <<48 + n>> ELSE Decimal(n \div 10) \o <<48 + (n % 10)>>

HexDigit(d) == IF d < 10 THEN 48 + d ELSE 87 + d

\* serde_json's string escaping, byte by byte
EscapeByte(b) ==
    IF b = 34 THEN <<92, 34>>
    ELSE IF b = 92 THEN <<92, 92>>
    ELSE IF b = 8 THEN <<92, 98>>
    ELSE IF b = 9 THEN <<92, 116>>
    ELSE IF b = 10 THEN <<92, 110>>
    ELSE IF b = 12 THEN <<92, 102>>
    ELSE IF b = 13 THEN <<92, 114>>
    ELSE IF b < 32 THEN <<92, 117, 48, 48, HexDigit(b \div 16), HexDigit(b % 16)>>
    ELSE <<b>>

RECURSIVE EscapeJson(_)
EscapeJson(s) == IF s = <<>> THEN <<>> ELSE EscapeByte(Head(s)) \o EscapeJson(Tail(s))

RECURSIVE JoinU32(_)
JoinU32(v) ==
    IF v = <<>> THEN <<>>
    ELSE IF Len(v) = 1 THEN Decimal(v[1])
    ELSE Decimal(Head(v)) \o <<44>> \o JoinU32(Tail(v))

\* #[derive(Serialize)] struct MyJson { foo: String, bar: Vec<u32> }
\* written by serde_json: {"foo":"...","bar":[...]}
SerializeMyJson(v) ==
    <<123, 34, 102, 111, 111, 34, 58, 34>> \o EscapeJson(v.foo) \o <<34, 44>>
    \o <<34, 98, 97, 114, 34, 58, 91>> \o JoinU32(v.bar) \o <<93, 125>>

\* ---------------------------------------------------------------- handlers

MyJson(foo, bar) == [foo |-> foo, bar |-> bar]

TextResponse(s) == [status |-> 200, ctype |-> "text/plain; charset=utf-8", body |-> s]
JsonResponse(v) == [status |-> 200, ctype |-> "application/json", body |-> SerializeMyJson(v)]
\* StatusCode::BAD_REQUEST as a response: the status and an empty body
BadRequest == [status |-> 400, ctype |-> "", body |-> <<>>]

\* Variant: another greeting template.
greetComma(path) == TextResponse(<<72, 101, 108, 108, 111, 44, 32>> \o path)

\* format!("Hello {path}")
greet(path) == TextResponse(HelloPrefix \o path)

\* Variant: the fixed vector in another order.
return_jsonReversed == JsonResponse(MyJson(StrFoo, <<114, 97, 98>>))

return_json == JsonResponse(MyJson(StrFoo, <<98, 97, 114>>))

\* Variant: decode_json over the skipping collection.
decode_jsonLossy(my_json) ==
    LET decoded == CollectStringSkipping(
                       [i \in 1 .. Len(my_json.bar) |-> char_try_from(my_json.bar[i])])
    IN  IF ~decoded.ok THEN BadRequest
        ELSE TextResponse(my_json.foo \o <<32>> \o decoded.s)

\* Err of the collection becomes StatusCode::BAD_REQUEST and is returned by
\* `?`; otherwise format!("{} {}", my_json.foo, decoded).
decode_json(my_json) ==
    LET decoded == CollectString(
                       [i \in 1 .. Len(my_json.bar) |-> char_try_from(my_json.bar[i])])
    IN  IF ~decoded.ok THEN BadRequest
        ELSE TextResponse(my_json.foo \o <<32>> \o decoded.s)

\* -------------------------------------------------------------- requests

EmptyJson == MyJson(<<>>, <<>>)

FetchReq == [kind |-> "fetch", path |-> <<>>, json |-> EmptyJson]
GreetReq(name) == [kind |-> "greet", path |-> name, json |-> EmptyJson]
DecodeReq(v) == [kind |-> "decode", path |-> <<>>, json |-> v]

\* Router: GET / -> return_json, POST / -> decode_json, GET /hello/:name -> greet
Route(req) ==
    IF req.kind = "fetch" THEN return_json
    ELSE IF req.kind = "decode" THEN decode_json(req.json)
    ELSE greet(req.path)

\* Requests sent to the running server
ServerRequests ==
    {FetchReq, GreetReq(StrBob),
     DecodeReq(MyJson(StrFoo, <<98, 97, 114>>)),
     DecodeReq(MyJson(StrFoo, <<98, 55296>>))}

\* Sequences over S of length at most n
SeqUpTo(S, n) == UNION {[1 .. k -> S] : k \in 0 .. n}

Labels == {<<>>, StrFoo, StrEAcute, StrQuoteNl}

\* Inputs of one handler call in HandlerSpec
HandlerRequests ==
    {FetchReq}
    \cup {GreetReq(n) : n \in Labels \cup {StrBob}}
    \cup {DecodeReq(MyJson(l, b)) : l \in Labels, b \in SeqUpTo(CodePointSamples, MaxLen)}

\* ------------------------------------------------------------------- state

VARIABLES
    env_bind_addr,  \* the BIND_ADDR environment variable, NoEnv when unset
    state,          \* where axum_example::main stands
    bindResult,     \* outcome of TcpListener::bind: "pending", "ok" or "err"
    bound,          \* the address the listener is bound to, NoAddr before
    exit,           \* [exited, code]: the process's exit
    conn,           \* per connection slot: the request in flight and its response
    accepted,       \* number of requests accepted so far
    erred,          \* a request has been answered with a client error
    log,            \* the exchanges that completed, each with what surrounded it
    call            \* HandlerSpec: one handler call, its input and its result

vars == <<env_bind_addr, state, bindResult, bound, exit, conn, accepted, erred, log, call>>

NoEnv == "unset"
NoAddr == "none"
\* the literal of TcpListener::bind and the default_value of Config::bind_addr
ListenAddr == "0.0.0.0:8080"
DefaultBindAddr == "0.0.0.0:8080"
EnvAddrs == {NoEnv, "0.0.0.0:8080", "127.0.0.1:3000"}

\* clap: bind_addr is read from the environment, else it is the default value
ConfigBindAddr(env) == IF env = NoEnv THEN DefaultBindAddr ELSE env

NoResponse == [status |-> 0, ctype |-> "", body |-> <<>>]
FreeSlot == [pc |-> "free", req |-> FetchReq, resp |-> NoResponse,
             afterErr |-> FALSE, conc |-> FALSE]
NoCall == [req |-> FetchReq, done |-> FALSE, ret |-> NoResponse]

Busy(s) == conn[s].pc # "free"
Drained == \A s \in Slots : ~Busy(s)

ServerIdle ==
    /\ state = "Starting"
    /\ bindResult = "pending"
    /\ bound = NoAddr
    /\ exit = [exited |-> FALSE, code |-> 0]
    /\ conn = [s \in Slots |-> FreeSlot]
    /\ accepted = 0
    /\ erred = FALSE
    /\ log = {}

Init ==
    /\ env_bind_addr \in EnvAddrs
    /\ ServerIdle
    /\ call = NoCall

\* ----------------------------------------------------------------- actions

\* TcpListener::bind(..).await.unwrap() with Ok: the server starts serving.
BindOk ==
    /\ state = "Starting"
    /\ state' = "Running"
    /\ bindResult' = "ok"
    /\ bound' = ListenAddr
    /\ UNCHANGED <<env_bind_addr, exit, conn, accepted, erred, log, call>>

\* Variant: the bind error is dropped and serving starts all the same.
BindFailIgnored ==
    /\ state = "Starting"
    /\ state' = "Running"
    /\ bindResult' = "err"
    /\ UNCHANGED <<env_bind_addr, bound, exit, conn, accepted, erred, log, call>>

\* TcpListener::bind(..).await.unwrap() with Err: unwrap panics in main,
\* the process ends with the panic's exit code.
BindFail ==
    /\ state = "Starting"
    /\ state' = "Aborted"
    /\ bindResult' = "err"
    /\ exit' = [exited |-> TRUE, code |-> 101]
    /\ UNCHANGED <<env_bind_addr, bound, conn, accepted, erred, log, call>>

\* axum::serve's accept loop takes a connection and its request.
Accept(s, r) ==
    /\ state = "Running"
    /\ ~Busy(s)
    /\ accepted < MaxRequests
    /\ conn' = [t \in Slots |->
                  IF t = s
                  THEN [pc |-> "inflight", req |-> r, resp |-> NoResponse,
                        afterErr |-> erred,
                        conc |-> \E u \in Slots \ {s} : Busy(u)]
                  ELSE IF Busy(t) THEN [conn[t] EXCEPT !.conc = TRUE]
                  ELSE conn[t]]
    /\ accepted' = accepted + 1
    /\ UNCHANGED <<env_bind_addr, state, bindResult, bound, exit, erred, log, call>>

\* Variant: handlers that consult a shared "failed" flag.
HandleStickyError(s) ==
    /\ conn[s].pc = "inflight"
    /\ conn' = [conn EXCEPT ![s].pc = "responded",
                            ![s].resp = IF erred THEN BadRequest ELSE Route(conn[s].req)]
    /\ UNCHANGED <<env_bind_addr, state, bindResult, bound, exit, accepted, erred, log, call>>

\* Variant: handlers that read their input from a buffer shared between the
\* requests in flight.
HandleSharedBuffer(s) ==
    /\ conn[s].pc = "inflight"
    /\ conn' = [conn EXCEPT ![s].pc = "responded",
                            ![s].resp =
                                IF \E u \in Slots \ {s} : conn[u].pc = "inflight"
                                THEN Route(conn[CHOOSE u \in Slots \ {s} :
                                                    conn[u].pc = "inflight"].req)
                                ELSE Route(conn[s].req)]
    /\ UNCHANGED <<env_bind_addr, state, bindResult, bound, exit, accepted, erred, log, call>>

\* The router runs the handler of the request's route; the handler reads
\* nothing but its own arguments.
Handle(s) ==
    /\ conn[s].pc = "inflight"
    /\ conn' = [conn EXCEPT ![s].pc = "responded", ![s].resp = Route(conn[s].req)]
    /\ UNCHANGED <<env_bind_addr, state, bindResult, bound, exit, accepted, erred, log, call>>

\* The response is written and the exchange is over.
Send(s) ==
    /\ conn[s].pc = "responded"
    /\ log' = log \cup {[req |-> conn[s].req, resp |-> conn[s].resp,
                         afterErr |-> conn[s].afterErr, conc |-> conn[s].conc,
                         phase |-> state]}
    /\ erred' = (erred \/ conn[s].resp.status = 400)
    /\ conn' = [conn EXCEPT ![s] = FreeSlot]
    /\ UNCHANGED <<env_bind_addr, state, bindResult, bound, exit, accepted, call>>

\* Variant: a shutdown that drops the connections being served.
CtrlCDropsInFlight ==
    /\ state = "Running"
    /\ state' = "ShuttingDown"
    /\ conn' = [s \in Slots |-> FreeSlot]
    /\ UNCHANGED <<env_bind_addr, bindResult, bound, exit, accepted, erred, log, call>>

\* tokio::signal::ctrl_c() resolves: with_graceful_shutdown stops the accept
\* loop and leaves the connections that are being served alone.
CtrlC ==
    /\ state = "Running"
    /\ state' = "ShuttingDown"
    /\ UNCHANGED <<env_bind_addr, bindResult, bound, exit, conn, accepted, erred, log, call>>

\* Variant: main returns without waiting for the connections to close.
ExitWithoutDrain ==
    /\ state = "ShuttingDown"
    /\ state' = "Exited"
    /\ exit' = [exited |-> TRUE, code |-> 0]
    /\ conn' = [s \in Slots |-> FreeSlot]
    /\ UNCHANGED <<env_bind_addr, bindResult, bound, accepted, erred, log, call>>

\* The serve future resolves once every connection is closed; .unwrap() of
\* Ok(()) and main returns.
Exit ==
    /\ state = "ShuttingDown"
    /\ Drained
    /\ state' = "Exited"
    /\ exit' = [exited |-> TRUE, code |-> 0]
    /\ UNCHANGED <<env_bind_addr, bindResult, bound, conn, accepted, erred, log, call>>

Next ==
    \/ BindOk
    \/ BindFail
    \/ \E s \in Slots, r \in ServerRequests : Accept(s, r)
    \/ \E s \in Slots : Handle(s)
    \/ \E s \in Slots : Send(s)
    \/ CtrlC
    \/ Exit

Spec == Init /\ [][Next]_vars

\* The runtime runs every ready task: a handler that can run does, a response
\* that can be written is, and main returns once serve has resolved.
Fairness ==
    /\ WF_vars(\E s \in Slots : Handle(s))
    /\ WF_vars(\E s \in Slots : Send(s))
    /\ WF_vars(Exit)

\* The server under the scheduler's fairness, on runs of fewer requests.
LiveNext ==
    \/ BindOk
    \/ BindFail
    \/ \E s \in Slots, r \in ServerRequests : accepted < MaxLiveRequests /\ Accept(s, r)
    \/ \E s \in Slots : Handle(s)
    \/ \E s \in Slots : Send(s)
    \/ CtrlC
    \/ Exit

LiveSpec == Init /\ [][LiveNext]_vars /\ Fairness

\* ------------------------------------------------- one handler call

HandlerInit ==
    /\ env_bind_addr = NoEnv
    /\ ServerIdle
    /\ call \in {[req |-> r, done |-> FALSE, ret |-> NoResponse] : r \in HandlerRequests}

Invoke ==
    /\ ~call.done
    /\ call' = [call EXCEPT !.done = TRUE, !.ret = Route(call.req)]
    /\ UNCHANGED <<env_bind_addr, state, bindResult, bound, exit, conn, accepted, erred, log>>

HandlerNext == Invoke

HandlerSpec == HandlerInit /\ [][HandlerNext]_vars

\* ------------------------------------------------------------- properties

\* A Unicode scalar value: 0 ..= 0xD7FF or 0xE000 ..= 0x10FFFF
ValidScalar(u) == (u <= 55295) \/ (u >= 57344 /\ u <= 1114111)

AllValid(bar) == \A i \in 1 .. Len(bar) : ValidScalar(bar[i])

\* The characters of a well-formed UTF-8 text
RECURSIVE Utf8Decode(_)
Utf8Decode(b) ==
    IF b = <<>> THEN <<>>
    ELSE LET h == Head(b)
             n == IF h < 128 THEN 1 ELSE IF h < 224 THEN 2 ELSE IF h < 240 THEN 3 ELSE 4
             cp == IF n = 1 THEN h
                   ELSE IF n = 2 THEN (h - 192) * 64 + (b[2] - 128)
                   ELSE IF n = 3 THEN (h - 224) * 4096 + (b[2] - 128) * 64 + (b[3] - 128)
                   ELSE (h - 240) * 262144 + (b[2] - 128) * 4096
                        + (b[3] - 128) * 64 + (b[4] - 128)
         IN  <<cp>> \o Utf8Decode(SubSeq(b, n + 1, Len(b)))

DecodeCalled == call.done /\ call.req.kind = "decode"

\* C1 as written: for a Payload whose integers are all valid characters,
\* decode_json answers 200 and the body's text is the label directly
\* followed by the characters the integers decode to, one per integer.
C1_LabelThenText ==
    (DecodeCalled /\ AllValid(call.req.json.bar)) =>
        /\ call.ret.status = 200
        /\ Utf8Decode(call.ret.body) = Utf8Decode(call.req.json.foo) \o call.req.json.bar

\* C1 amended: for a Payload whose integers are all valid characters (the
\* empty sequence included), decode_json answers 200 and the body's text is
\* the label, one space, then the characters the integers decode to, in
\* order, one per integer.
C1_LabelSpaceText ==
    (DecodeCalled /\ AllValid(call.req.json.bar)) =>
        /\ call.ret.status = 200
        /\ Utf8Decode(call.ret.body) =
               Utf8Decode(call.req.json.foo) \o <<32>> \o call.req.json.bar

C1_Witness ==
    /\ call.done
    /\ call.req = DecodeReq(MyJson(StrEAcute, <<65536, 97>>))
    /\ call.ret.status = 200

\* C2: for a Payload with at least one integer that is no valid character,
\* wherever it sits, decode_json answers 400 with an empty body: never a
\* success, never part of the text.
C2_InvalidIsBadRequest ==
    (DecodeCalled /\ ~AllValid(call.req.json.bar)) =>
        /\ call.ret.status = 400
        /\ call.ret.body = <<>>

C2_Witness ==
    /\ call.done
    /\ call.req = DecodeReq(MyJson(StrFoo, <<97, 55296>>))
    /\ call.ret.status = 400

\* C10: greet answers 200 with "Hello " followed by exactly the name, for
\* every name; for "Bob" the body is "Hello Bob".
C10_GreetEchoesName ==
    (call.done /\ call.req.kind = "greet") =>
        /\ call.ret.status = 200
        /\ Len(call.ret.body) = 6 + Len(call.req.path)
        /\ SubSeq(call.ret.body, 1, 6) = <<72, 101, 108, 108, 111, 32>>
        /\ SubSeq(call.ret.body, 7, Len(call.ret.body)) = call.req.path
        /\ (call.req.path = <<66, 111, 98>> =>
                call.ret.body = <<72, 101, 108, 108, 111, 32, 66, 111, 98>>)

C10_Witness == call.done /\ call.req = GreetReq(StrBob) /\ call.ret.status = 200

\* Every response the server has produced: the completed exchanges and the
\* responses waiting to be written.
Answered ==
    log \cup {[req |-> conn[s].req, resp |-> conn[s].resp,
               afterErr |-> conn[s].afterErr, conc |-> conn[s].conc,
               phase |-> state] : s \in {t \in Slots : conn[t].pc = "responded"}}

\* {"foo":"foo","bar":[98,97,114]}
FixedPayloadJson ==
    <<123, 34, 102, 111, 111, 34, 58, 34, 102, 111, 111, 34, 44,
      34, 98, 97, 114, 34, 58, 91, 57, 56, 44, 57, 55, 44, 49, 49, 52, 93, 125>>

\* C8: every answer to GET / is a success carrying the Payload with label
\* "foo" and sequence [98, 97, 114], whatever was handled before or is
\* being handled at the same time.
C8_FetchIsFixed ==
    \A e \in Answered :
        e.req.kind = "fetch" => e.resp.status = 200 /\ e.resp.body = FixedPayloadJson

C8_Witness ==
    \E e \in log :
        e.req.kind = "fetch" /\ e.afterErr /\ e.conc /\ e.phase = "Running"

\* C6: once bind has failed the process has aborted with a failure code: it
\* is not Running, holds no listener, and has accepted and served nothing.
C6_BindFailureAborts ==
    bindResult = "err" =>
        /\ state = "Aborted"
        /\ exit.exited /\ exit.code # 0
        /\ bound = NoAddr
        /\ accepted = 0 /\ log = {} /\ Drained

C6_Witness == bindResult = "err" /\ state = "Aborted" /\ exit.exited

\* C7: the listener is bound to the configured address: BIND_ADDR when it is
\* set, 0.0.0.0:8080 when it is not.
C7_BindsConfiguredAddr ==
    bindResult = "ok" => bound = ConfigBindAddr(env_bind_addr)

\* C9: the response to a request depends on nothing but the request: any two
\* answers to the same request are equal, and an answer given while other
\* requests were in flight equals the answer given to the same request
\* handled alone.
C9_ResponseIsFunctionOfRequest ==
    /\ \A a \in Answered, b \in Answered : a.req = b.req => a.resp = b.resp
    /\ \A a \in Answered, b \in log :
           (a.conc /\ ~b.conc /\ a.req = b.req) => a.resp = b.resp

C9_Witness ==
    \E a \in log, b \in log :
        a.conc /\ ~b.conc /\ a.req = b.req /\ a.resp = b.resp

\* C5: answering a request with a client error changes nothing of the
\* server: its state and exit are as before, and a request accepted after
\* the error gets the response the same request got before any error.
C5_ErrorLeavesServerAlone ==
    /\ [](\A a \in Answered, b \in log :
              (a.afterErr /\ ~b.afterErr /\ a.req = b.req) => a.resp = b.resp)
    /\ [][(erred' /\ ~erred) =>
              (state' = state /\ exit' = exit /\ bound' = bound
               /\ accepted' = accepted)]_vars

C5_Witness ==
    /\ state = "Running"
    /\ erred
    /\ \E a \in log, b \in log :
           a.afterErr /\ ~b.afterErr /\ a.req = b.req /\ a.resp = b.resp

\* What may happen to a request in flight in one step: nothing, its handler
\* produces its response, or its response is written and the exchange is
\* recorded with that response.
NotCancelled(s) ==
    \/ conn'[s].pc = conn[s].pc /\ conn'[s].req = conn[s].req
                                /\ conn'[s].resp = conn[s].resp
    \/ conn[s].pc = "inflight" /\ conn'[s].pc = "responded"
                               /\ conn'[s].req = conn[s].req
                               /\ conn'[s].resp.status \in {200, 400}
    \/ conn[s].pc = "responded" /\ conn'[s].pc = "free"
                                /\ \E e \in log' : e.req = conn[s].req
                                                   /\ e.resp = conn[s].resp

\* C3: once the interrupt has been received no connection is accepted, and
\* every request accepted before it is never dropped and completes with its
\* response.
C3_GracefulShutdown ==
    /\ [][state = "ShuttingDown" =>
              (accepted' = accepted /\ \A s \in Slots : ~Busy(s) => conn'[s].pc = "free")]_vars
    /\ [][\A s \in Slots : Busy(s) => NotCancelled(s)]_vars
    /\ \A s \in Slots : (state = "ShuttingDown" /\ Busy(s)) ~> (conn[s].pc = "free")

C3_Witness ==
    /\ state = "ShuttingDown"
    /\ \E e \in log : e.phase = "ShuttingDown"
    /\ \E s \in Slots : Busy(s)

Transitions ==
    {<<"Starting", "Running">>, <<"Starting", "Aborted">>,
     <<"Running", "ShuttingDown">>, <<"ShuttingDown", "Exited">>}

\* C4: a successful bind makes the service Running; Running is left only for
\* ShuttingDown, never re-entered; the process exits only from ShuttingDown,
\* only when no request is in flight, with code 0; and from ShuttingDown it
\* does exit.
C4_Lifecycle ==
    /\ [][state' # state => <<state, state'>> \in Transitions]_vars
    /\ [][(bindResult' = "ok" /\ bindResult # "ok") => state' = "Running"]_vars
    /\ [][(state' = "Exited" /\ state # "Exited") =>
              (Drained /\ exit' = [exited |-> TRUE, code |-> 0])]_vars
    /\ [](state \in {"Running", "ShuttingDown"} => ~exit.exited)
    /\ (state = "ShuttingDown") ~> (state = "Exited" /\ exit.code = 0)

C4_Witness ==
    /\ state = "Exited"
    /\ exit = [exited |-> TRUE, code |-> 0]
    /\ \E e \in log : e.phase = "ShuttingDown"

====
